---- MODULE Spec2Model ----
(***************************************************************************)
(* HMAC, nonce variant (src/auth/qhmac.rs):                                *)
(*     H(nonce, (K xor opad) || H(nonce, (K xor ipad) || text))            *)
(*                                                                         *)
(* The struct HMAC<H> owns two hash instances, ih and oh.  The hash H is a *)
(* type parameter: it is modelled by a symbolic stand-in whose digest is a *)
(* sequence of cells, one per output byte, each cell naming the instance   *)
(* configuration, the absorbed input and its own position, so that two     *)
(* digests are equal exactly when nonce, size and input are equal.         *)
(*                                                                         *)
(* A byte inside a hash input is a cell: <<v>> for the concrete value v,   *)
(* or <<"H", key, size, input, j>> for byte j of a digest.  Keys, data and *)
(* the two pads are plain sequences of integers 0..255, as in the code.    *)
(***************************************************************************)
EXTENDS Integers, Sequences, FiniteSets

VARIABLES ih, oh, key0, data0, call, lastNonce, lastSize, first

vars == <<ih, oh, key0, data0, call, lastNonce, lastSize, first>>

(***************************************************************************)
(* Program constants.                                                      *)
(***************************************************************************)
BlockLen == 64
IPAD == 54
OPAD == 92

(***************************************************************************)
(* Bounds of the model.                                                    *)
(***************************************************************************)
NaturalLen == 2
MaxSize == 3
MaxNonce == 2
MaxDataLen == 1
MaxShort == 1

KeyLens == (0..MaxShort) \cup ((BlockLen - 1)..(BlockLen + 1))
KeyOf(n) == [i \in 1..n |-> (37 * i) % 256]
Keys == {KeyOf(n) : n \in KeyLens}
Datas == {[i \in 1..n |-> 7 * i] : n \in 0..MaxDataLen}
Nonces == {<<n>> : n \in 1..MaxNonce}
Sizes == 1..MaxSize

(***************************************************************************)
(* u8 xor.                                                                 *)
(***************************************************************************)
Bit(a, k) == (a \div k) % 2

XorBit(a, b, k) == ((Bit(a, k) + Bit(b, k)) % 2) * k

Xor8(a, b) ==
    XorBit(a, b, 1) + XorBit(a, b, 2) + XorBit(a, b, 4) + XorBit(a, b, 8)
    + XorBit(a, b, 16) + XorBit(a, b, 32) + XorBit(a, b, 64) + XorBit(a, b, 128)

(***************************************************************************)
(* The hash capability H (trait Hash / GenericHash), a stand-in.           *)
(***************************************************************************)
Bytes(s) == [i \in 1..Len(s) |-> <<s[i]>>]

H_default == [key |-> <<>>, size |-> NaturalLen]

H_with_key(h, nonce) == [h EXCEPT !.key = nonce]

H_with_size(h, len) == [h EXCEPT !.size = len]

H_hash(h, input) == [j \in 1..h.size |-> <<"H", h.key, h.size, input, j>>]

DigestEq(digest, tag) == digest = tag

(***************************************************************************)
(* impl Default for HMAC<H> / HMAC::new                                    *)
(***************************************************************************)
HMAC_default == [ih |-> H_default, oh |-> H_default]

new == HMAC_default

(***************************************************************************)
(* impl Mac for HMAC<H>                                                    *)
(***************************************************************************)
Fill(b, n) == [i \in 1..n |-> b]

XorLoop_truncating(pads, key) ==
    [ipad |-> [i \in 1..Len(pads.ipad) |->
                  IF i <= Len(key) THEN Xor8(pads.ipad[i], key[i]) ELSE pads.ipad[i]],
     opad |-> [i \in 1..Len(pads.opad) |->
                  IF i <= Len(key) THEN Xor8(pads.opad[i], key[i]) ELSE pads.opad[i]],
     panic |-> FALSE]

XorLoop_assign(pads, key) ==
    [ipad |-> [i \in 1..Len(pads.ipad) |->
                  IF i <= Len(key) THEN Xor8(pads.ipad[i], key[i]) ELSE 0],
     opad |-> [i \in 1..Len(pads.opad) |->
                  IF i <= Len(key) THEN Xor8(pads.opad[i], key[i]) ELSE 0],
     panic |-> Len(key) > Len(pads.ipad)]

XorLoop_ipad_only(pads, key) ==
    [ipad |-> [i \in 1..Len(pads.ipad) |->
                  IF i <= Len(key) THEN Xor8(pads.ipad[i], key[i]) ELSE pads.ipad[i]],
     opad |-> pads.opad,
     panic |-> Len(key) > Len(pads.ipad)]

RECURSIVE XorStep(_, _, _)
XorStep(pads, key, i) ==
    IF i > Len(key) THEN pads
    ELSE IF i > Len(pads.ipad) \/ i > Len(pads.opad)
         THEN [pads EXCEPT !.panic = TRUE]
         ELSE XorStep([pads EXCEPT !.ipad[i] = Xor8(@, key[i]),
                                   !.opad[i] = Xor8(@, key[i])], key, i + 1)

XorLoop(pads, key) == XorStep(pads, key, 1)

Panicked == [kind |-> "panic", tag |-> <<>>, ok |-> FALSE]
Returned(digest) == [kind |-> "tag", tag |-> digest, ok |-> FALSE]
Answered(b) == [kind |-> "bool", tag |-> <<>>, ok |-> b]
NoOutcome == [kind |-> "none", tag |-> <<>>, ok |-> FALSE]

InitPads ==
    [ipad |-> Fill(IPAD, BlockLen), opad |-> Fill(OPAD, BlockLen), panic |-> FALSE]

result(self, key, data) ==
    LET pads == XorLoop(InitPads, key)
    IN  IF pads.panic THEN Panicked
        ELSE LET ipad == pads.ipad \o data
                 inner == H_hash(self.ih, Bytes(ipad))
                 opad == Bytes(pads.opad) \o inner
             IN  Returned(H_hash(self.oh, opad))

result_self_keyed(self, key, data) ==
    [self EXCEPT !.oh = H_with_key(@, key)]

result_self(self, key, data) == self

verify_self(self, key, data, tag) == self

verify_skipfirst(self, key, data, tag) ==
    LET r == result(self, key, data)
    IN  IF r.kind = "panic" THEN Panicked
        ELSE Answered(DigestEq(r.tag, IF tag = <<>> THEN tag ELSE Tail(tag)))

verify_prefix(self, key, data, tag) ==
    LET r == result(self, key, data)
    IN  IF r.kind = "panic" THEN Panicked
        ELSE Answered(\A i \in 1..Len(r.tag) : i <= Len(tag) => r.tag[i] = tag[i])

verify(self, key, data, tag) ==
    LET r == result(self, key, data)
    IN  IF r.kind = "panic" THEN Panicked
        ELSE Answered(DigestEq(r.tag, tag))

(***************************************************************************)
(* impl NonceMac for HMAC<H>                                               *)
(***************************************************************************)
with_nonce_inner_only(self, nonce) ==
    [self EXCEPT !.ih = H_with_key(@, nonce)]

with_nonce_dropped(self, nonce) == self

with_nonce(self, nonce) ==
    [ih |-> H_with_key(self.ih, nonce), oh |-> H_with_key(self.oh, nonce)]

with_size_both(self, len) ==
    [ih |-> H_with_size(self.ih, len), oh |-> H_with_size(self.oh, len)]

with_size_inner(self, len) ==
    [self EXCEPT !.ih = H_with_size(@, len)]

with_size(self, len) ==
    [self EXCEPT !.oh = H_with_size(@, len)]

(***************************************************************************)
(* The instance and the calls made on it.  key0 and data0 are the inputs   *)
(* under test, chosen by the caller; first remembers the first tag that    *)
(* result returned for them since the last configuration call, and whether *)
(* any other call was made on the instance after it.                       *)
(***************************************************************************)
Self == [ih |-> ih, oh |-> oh]

NoFirst == [set |-> FALSE, tag |-> <<>>, others |-> FALSE]

OtherKey(key) == IF key = <<>> THEN <<1>> ELSE Tail(key)
OtherData(data) == data \o <<1>>

Call(op, key, data, tag, nonce, len, out) ==
    [op |-> op, key |-> key, data |-> data, tag |-> tag, nonce |-> nonce,
     len |-> len, out |-> out, pre |-> Self]

TagCandidates(self, key, data) ==
    LET r == result(self, key, data)
        t == r.tag
        alt == result(self, key, OtherData(data)).tag
    IN  IF r.kind = "panic" THEN {<<>>}
        ELSE {t,
              SubSeq(t, 1, Len(t) - 1),
              t \o <<alt[1]>>,
              [t EXCEPT ![1] = alt[1]],
              [t EXCEPT ![Len(t)] = alt[Len(t)]]}

Init ==
    /\ ih = new.ih
    /\ oh = new.oh
    /\ key0 \in Keys
    /\ data0 \in Datas
    /\ call = [op |-> "new", key |-> <<>>, data |-> <<>>, tag |-> <<>>,
               nonce |-> <<>>, len |-> 0, out |-> NoOutcome, pre |-> new]
    /\ lastNonce = <<>>
    /\ lastSize = 0
    /\ first = NoFirst

WithNonce(nonce) ==
    LET s == with_nonce(Self, nonce)
    IN  /\ ih' = s.ih
        /\ oh' = s.oh
        /\ call' = Call("with_nonce", <<>>, <<>>, <<>>, nonce, 0, NoOutcome)
        /\ lastNonce' = nonce
        /\ first' = NoFirst
        /\ UNCHANGED <<key0, data0, lastSize>>

WithSize(len) ==
    LET s == with_size(Self, len)
    IN  /\ ih' = s.ih
        /\ oh' = s.oh
        /\ call' = Call("with_size", <<>>, <<>>, <<>>, <<>>, len, NoOutcome)
        /\ lastSize' = len
        /\ first' = NoFirst
        /\ UNCHANGED <<key0, data0, lastNonce>>

Result(key, data) ==
    LET r == result(Self, key, data)
        s == result_self(Self, key, data)
    IN  /\ ih' = s.ih
        /\ oh' = s.oh
        /\ call' = Call("result", key, data, <<>>, <<>>, 0, r)
        /\ first' = IF key = key0 /\ data = data0
                     THEN IF ~first.set /\ r.kind = "tag"
                          THEN [set |-> TRUE, tag |-> r.tag, others |-> FALSE]
                          ELSE first
                     ELSE [first EXCEPT !.others = first.set]
        /\ UNCHANGED <<key0, data0, lastNonce, lastSize>>

Verify(key, data, tag) ==
    LET r == verify(Self, key, data, tag)
        s == verify_self(Self, key, data, tag)
    IN  /\ ih' = s.ih
        /\ oh' = s.oh
        /\ call' = Call("verify", key, data, tag, <<>>, 0, r)
        /\ first' = [first EXCEPT !.others = first.set]
        /\ UNCHANGED <<key0, data0, lastNonce, lastSize>>

Next ==
    \/ \E nonce \in Nonces : WithNonce(nonce)
    \/ \E len \in Sizes : WithSize(len)
    \/ Result(key0, data0)
    \/ Result(OtherKey(key0), OtherData(data0))
    \/ \E tag \in TagCandidates(Self, key0, data0) : Verify(key0, data0, tag)

Spec == Init /\ [][Next]_vars

(***************************************************************************)
(* The pads in closed form, and the outcome of the last call.              *)
(***************************************************************************)
PadOf(key, fill) ==
    [i \in 1..BlockLen |-> IF i <= Len(key) THEN Xor8(key[i], fill) ELSE fill]

ZeroPadded(key) == key \o Fill(0, BlockLen - Len(key))

ExpectedTag(self, key, data) ==
    H_hash(self.oh,
           Bytes(PadOf(key, OPAD))
               \o H_hash(self.ih, Bytes(PadOf(key, IPAD) \o data)))

Tagged == call.out.kind = "tag"

(* C1: for every configuration, every key of 0..64 bytes and every data,   *)
(* result returns outer.hash(P_o || inner.hash(P_i || data)), the pads     *)
(* being 64 bytes, key xor 0x36 / 0x5c below len(key) and 0x36 / 0x5c from *)
(* there on, each hash taken under its instance's current configuration.   *)
C1_NestedHash ==
    (call.op = "result" /\ Len(call.key) <= BlockLen)
        => /\ Tagged
           /\ call.out.tag = ExpectedTag(Self, call.key, call.data)

C1_Witness ==
    /\ call.op = "result"
    /\ Len(call.key) = BlockLen - 1
    /\ call.data # <<>>
    /\ ih.key # <<>>
    /\ oh.size # NaturalLen
    /\ Tagged

(* C2: on one instance, with no configuration call in between, verify of   *)
(* the tag that result returns for the same key (at most 64 bytes) and     *)
(* data answers true.                                                      *)
C2_RoundTrip ==
    (/\ call.op = "verify"
     /\ Len(call.key) <= BlockLen
     /\ call.tag = result(call.pre, call.key, call.data).tag)
        => call.out = Answered(TRUE)

C2_Witness ==
    /\ call.op = "verify"
    /\ call.out = Answered(TRUE)
    /\ lastNonce # <<>>
    /\ lastSize # 0

(* C3: for a key of at most 64 bytes, verify answers a boolean, never a    *)
(* failure, and answers true exactly when the tag has the length and the   *)
(* bytes of result(key, data) on the same instance; a tag with one byte    *)
(* changed, a proper prefix and an extension are all answered false.       *)
C3_VerifyIffEqual ==
    (call.op = "verify" /\ Len(call.key) <= BlockLen)
        => LET t == result(call.pre, call.key, call.data).tag
           IN  /\ call.out.kind = "bool"
               /\ call.out.ok <=>
                     /\ Len(call.tag) = Len(t)
                     /\ \A i \in 1..Len(t) : call.tag[i] = t[i]

C3_Witness ==
    /\ call.op = "verify"
    /\ call.out = Answered(FALSE)
    /\ call.tag # <<>>
    /\ LET t == result(call.pre, call.key, call.data).tag
       IN  /\ Len(call.tag) < Len(t)
           /\ call.tag = SubSeq(t, 1, Len(call.tag))

(* C4: a key longer than 64 bytes makes result and verify fail (the call   *)
(* panics) instead of returning a tag or a boolean computed from a         *)
(* truncated key; a key of at most 64 bytes always gets a tag.             *)
C4_LongKeyRejected ==
    /\ (call.op \in {"result", "verify"} /\ Len(call.key) > BlockLen)
          => call.out = Panicked
    /\ (call.op = "result" /\ Len(call.key) <= BlockLen) => Tagged

C4_Witness ==
    /\ call.op = "result"
    /\ Len(call.key) > BlockLen
    /\ call.out = Panicked

(* C5 as stated: in every state reached by with_nonce and with_size calls  *)
(* the inner and the outer hash instance hold identical configuration.     *)
C5_LockStep == ih = oh

(* C5 as amended: the inner and the outer instance always hold the nonce   *)
(* of the last with_nonce call (none before the first); a size request     *)
(* reaches the outer instance only, the inner one keeps its default size.  *)
C5_NonceLockStep ==
    /\ ih.key = lastNonce
    /\ oh.key = lastNonce
    /\ ih.size = NaturalLen
    /\ oh.size = IF lastSize = 0 THEN NaturalLen ELSE lastSize

C5_Witness ==
    /\ call.op = "with_nonce"
    /\ call.pre.ih.key # <<>>
    /\ call.pre.ih.key # call.nonce
    /\ lastSize # 0
    /\ lastSize # NaturalLen

(* C6: with_size(len) changes the output length of the outer instance and  *)
(* nothing else: the inner instance keeps its natural length, both nonces  *)
(* stay, and the inner digest fed to the outer pass is the one before the  *)
(* call.                                                                   *)
C6_WithSizeFrame ==
    call.op = "with_size"
        => /\ ih = call.pre.ih
           /\ ih.size = NaturalLen
           /\ oh.key = call.pre.oh.key
           /\ oh.size = call.len
           /\ Len(key0) <= BlockLen
                 => H_hash(ih, Bytes(PadOf(key0, IPAD) \o data0))
                      = H_hash(call.pre.ih, Bytes(PadOf(key0, IPAD) \o data0))

C6_Witness ==
    /\ call.op = "with_size"
    /\ call.len # call.pre.oh.size
    /\ call.pre.oh.size # NaturalLen
    /\ lastNonce # <<>>

(* C7: once with_size(L) was called, every tag result returns is L bytes   *)
(* long, whatever with_nonce calls came before or after, until a later     *)
(* with_size call replaces L.                                              *)
C7_SizeRespected ==
    (call.op = "result" /\ Tagged /\ lastSize # 0)
        => Len(call.out.tag) = lastSize

C7_Witness ==
    /\ call.op = "result"
    /\ Tagged
    /\ lastSize # 0
    /\ lastSize # NaturalLen
    /\ lastNonce # <<>>
    /\ Len(call.out.tag) = lastSize

(* C8: with_nonce(n) puts n on the inner and on the outer instance, and    *)
(* the instance that got another nonce in that same call (same size        *)
(* configuration) returns a different tag for every key of at most 64      *)
(* bytes and every data.                                                   *)
C8_NonceSensitive ==
    call.op = "with_nonce"
        => /\ ih.key = call.nonce
           /\ oh.key = call.nonce
           /\ \A n2 \in Nonces \ {call.nonce} :
                 Len(key0) <= BlockLen
                    => result(Self, key0, data0).tag
                         # result(with_nonce(call.pre, n2), key0, data0).tag

C8_Witness ==
    /\ call.op = "with_nonce"
    /\ Len(key0) = BlockLen
    /\ data0 # <<>>
    /\ lastSize # 0
    /\ call.pre.oh.key # <<>>

(* C9: a key shorter than 64 bytes gives the tag of the same key followed  *)
(* by zero bytes up to 64; a key of exactly 64 bytes is used in full, its  *)
(* first and its last byte both reaching the tag.                          *)
C9_KeyBoundary ==
    /\ (call.op = "result" /\ Len(call.key) < BlockLen)
          => call.out = result(call.pre, ZeroPadded(call.key), call.data)
    /\ (call.op = "result" /\ Len(call.key) = BlockLen)
          => \A i \in {1, BlockLen} :
                call.out # result(call.pre,
                                  [call.key EXCEPT ![i] = Xor8(@, 1)], call.data)

C9_Witness ==
    /\ call.op = "result"
    /\ Len(call.key) > 0
    /\ Len(call.key) < BlockLen
    /\ Tagged
    /\ lastNonce # <<>>

(* C10: result and verify leave the configuration of both instances as it  *)
(* was, and while no configuration call is made result returns, for the    *)
(* same key and data, the tag it returned the first time, whatever calls   *)
(* on other keys, data or tags came in between.                            *)
C10_Deterministic ==
    /\ call.op \in {"result", "verify"} => Self = call.pre
    /\ (call.op = "result" /\ call.key = key0 /\ call.data = data0 /\ first.set)
          => /\ Tagged
             /\ call.out.tag = first.tag

C10_Witness ==
    /\ call.op = "result"
    /\ call.key = key0
    /\ call.data = data0
    /\ first.set
    /\ first.others
    /\ lastNonce # <<>>

====
